---- MODULE Spec2Model ----
(***************************************************************************)
(* MSSQL MCP server for Azure AI Foundry.                                  *)
(*                                                                         *)
(* Two programs share the Connection Manager code:                         *)
(*   - mcp-server.ts : MCP over SSE, with the Access Guard middleware      *)
(*   - server.ts     : the legacy REST variant (/api/read_data, ...)       *)
(* The variable env.program says which of the two is running.              *)
(*                                                                         *)
(* Every asynchronous handler is cut at its awaits on I/O (token fetch,    *)
(* pool close, pool open, query round trip): these are the only points at  *)
(* which the single-threaded event loop can interleave another handler.    *)
(* Strings are sequences of chunks; the absent value (undefined) is the    *)
(* one-chunk sequence Undefined and the empty string is << >>.             *)
(***************************************************************************)
EXTENDS Integers, Sequences, FiniteSets, TLC

\* ------------------------------------------------------------------ bounds
MaxTasks == 2
MaxMessages == 1
MaxTicks == 2
MaxSessions == 2
MaxCloseSignals == 2
MaxRows == 2

\* ------------------------------------------------------- program constants
MinuteMs == 60000
SafetyMarginMs == 2 * 60 * 1000
SecondMs == 1000

\* ----------------------------------------------------------------- strings
Undefined == <<"#undefined">>
Falsy(s) == s = Undefined \/ s = << >>
Or(a, b) == IF Falsy(a) THEN b ELSE a

GoodKey == <<"k1">>
BadKey == <<"wrong-key">>
Anonymous == <<"anonymous">>

\* String.prototype.replace('Bearer ', ''): removes the first occurrence
RECURSIVE ReplaceBearer(_)
ReplaceBearer(s) ==
  IF s = << >> THEN << >>
  ELSE IF Head(s) = "Bearer " THEN Tail(s)
  ELSE <<Head(s)>> \o ReplaceBearer(Tail(s))

\* ------------------------------------------------------------------- state
NoPool == 0
NoToken == 0
NoDate == -1
NoSession == 0

VARIABLES
  env,                  \* process.env: program, API_KEY, rate-limit settings
  phase,                \* "starting" | "listening" | "exited"
  now,                  \* Date.now(), milliseconds
  globalSqlPool,        \* handle id or NoPool
  globalAccessToken,    \* token id or NoToken
  globalTokenExpiresOn, \* instant or NoDate
  pools,                \* every handle ever opened: [state, token]
  nTokens,              \* tokens issued by the Token Provider so far
  tasks,                \* startup (0) and the handler invocations 1..MaxTasks
  transports,           \* Session Registry: registered session ids
  sessions,             \* per session id: "none"|"establishing"|"open"|"closed"
  serverTransport,      \* the transport mcpServer is connected to
  streams,              \* frames delivered per session stream
  removals,             \* per session id: runs of its onclose callback
  requestCounts,        \* rate limiter: key -> [count, resetTime]
  admitted,             \* history: key -> requests the limiter passed on, by window
  last                  \* the last HTTP exchange: request and direct response

vars == <<env, phase, now, globalSqlPool, globalAccessToken,
          globalTokenExpiresOn, pools, nTokens, tasks, transports, sessions,
          serverTransport, streams, removals, requestCounts, admitted, last>>

connVars == <<globalSqlPool, globalAccessToken, globalTokenExpiresOn, pools, nTokens>>
sessVars == <<transports, sessions, serverTransport, streams, removals>>

TaskIds == 0..MaxTasks
SessionIds == 1..MaxSessions


\* ------------------------------------------------------ request payloads
NonString == <<"#number">>
NoNames == << <<"#undefined">> >>
IsString(s) == s # Undefined /\ s # NonString

\* values of `parameters` that are not arrays: a number, a non-empty string
NumberNames == << <<"#number">> >>
StringNames == << <<"#string">> >>

Upper(c) ==
  CASE c = "s" -> "S" [] c = "e" -> "E" [] c = "l" -> "L"
    [] c = "c" -> "C" [] c = "t" -> "T" [] c = "d" -> "D"
    [] OTHER -> c

\* String.prototype.toUpperCase
ToUpperCase(s) == [i \in 1..Len(s) |-> Upper(s[i])]

RECURSIVE TrimStart(_)
TrimStart(s) == IF s # << >> /\ Head(s) = " " THEN TrimStart(Tail(s)) ELSE s

RECURSIVE TrimEnd(_)
TrimEnd(s) ==
  IF s # << >> /\ s[Len(s)] = " " THEN TrimEnd(SubSeq(s, 1, Len(s) - 1)) ELSE s

\* String.prototype.trim
Trim(s) == TrimEnd(TrimStart(s))

\* String.prototype.startsWith
StartsWith(s, p) == Len(s) >= Len(p) /\ SubSeq(s, 1, Len(p)) = p

SELECT == <<"S", "E", "L", "E", "C", "T">>

NoArgs == [query |-> Undefined, parameters |-> NoNames, tableName |-> Undefined]

NoStmt == [tpl |-> "none", text |-> << >>, names |-> << >>]

NoCred == [x |-> Undefined, auth |-> Undefined, q |-> Undefined]

\* the result envelope before it is built; count and executedAt are -1 in
\* an envelope that has no such field
NoBody == [success |-> FALSE, rows |-> << >>, count |-> -1, executedAt |-> -1]

FreeTask ==
  [pc |-> "free", kind |-> "none", op |-> "none", args |-> NoArgs,
   sess |-> NoSession, srv |-> NoSession,
   tok |-> NoToken, closing |-> NoPool,
   nTok |-> 0, nOpen |-> 0, nClose |-> 0, stmt |-> NoStmt,
   ranOn |-> NoPool, recordset |-> << >>, body |-> NoBody, listed |-> << >>,
   resp |-> "none", err |-> "none"]

NoExchange ==
  [method |-> "none", path |-> "none", cred |-> NoCred,
   hSession |-> Undefined, qSession |-> Undefined,
   status |-> "none", reached |-> FALSE, looked |-> FALSE, task |-> -1,
   retryAfter |-> -1, retryAt |-> -1]

\* ------------------------------------------------------ Connection Manager
\* The Token Provider and the database driver are external: getToken issues
\* a fresh token, sql.connect(config) opens a new handle, close() makes the
\* handle report disconnected at once and completes later; each may fail.
TokenLives == {3 * MinuteMs}

\* a handle that keeps reporting connected until its close has completed
Connected_UntilClosed(p) == p # NoPool /\ pools[p].state \in {"open", "closing"}

Connected(p) == p # NoPool /\ pools[p].state = "open"

\* Valid with a safety margin of 3 minutes instead of 2
Valid_WrongMargin ==
  /\ globalSqlPool # NoPool
  /\ Connected(globalSqlPool)
  /\ globalAccessToken # NoToken
  /\ globalTokenExpiresOn # NoDate
  /\ globalTokenExpiresOn > now + 3 * 60 * 1000

\* the fast-path test of ensureSqlConnection
Valid ==
  /\ globalSqlPool # NoPool
  /\ Connected(globalSqlPool)
  /\ globalAccessToken # NoToken
  /\ globalTokenExpiresOn # NoDate
  /\ globalTokenExpiresOn > now + SafetyMarginMs

\* Thrown with a startServer that logs the error and listens all the same
Thrown_Degraded(tk, why) ==
  CASE tk.kind = "startup" -> [tk EXCEPT !.pc = "done", !.resp = "listening", !.err = why]
    [] tk.kind = "rest" -> [tk EXCEPT !.pc = "done", !.resp = "500", !.err = why]
    [] OTHER -> [tk EXCEPT !.pc = "done", !.resp = "isError", !.err = why]

\* an error thrown out of an await: startServer exits the process, a REST
\* handler answers 500, the MCP tool handler returns an isError result
Thrown(tk, why) ==
  CASE tk.kind = "startup" -> [tk EXCEPT !.pc = "done", !.resp = "exit", !.err = why]
    [] tk.kind = "rest" -> [tk EXCEPT !.pc = "done", !.resp = "500", !.err = why]
    [] OTHER -> [tk EXCEPT !.pc = "done", !.resp = "isError", !.err = why]

\* read-query, list-tables, describe-table up to the database round trip;
\* a throw inside an executor of the MCP server is caught by the
\* CallToolRequestSchema handler and becomes an isError result
Reject(tk, code, why) == [tk EXCEPT !.pc = "done", !.resp = code, !.err = why]
Issue(tk, st) == [tk EXCEPT !.pc = "query", !.stmt = st, !.ranOn = globalSqlPool']

BadCode(tk) == IF tk.kind = "rest" THEN "400" ELSE "isError"

\* parameters && parameters.length > 0: a number has no length
HasFilter(a) == a.parameters \notin {NoNames, NumberNames} /\ Len(a.parameters) > 0

\* executeReadData without the test of the SELECT prefix
executeReadData_NoPrefixCheck(tk) ==
  IF Falsy(tk.args.query) \/ ~IsString(tk.args.query)
  THEN Reject(tk, BadCode(tk), "validation")
  ELSE Issue(tk, [tpl |-> "read", text |-> tk.args.query, names |-> << >>])

executeReadData(tk) ==
  IF Falsy(tk.args.query) \/ ~IsString(tk.args.query)
  THEN Reject(tk, BadCode(tk), "validation")
  ELSE IF ~StartsWith(ToUpperCase(Trim(tk.args.query)), SELECT)
  THEN Reject(tk, BadCode(tk), "validation")
  ELSE Issue(tk, [tpl |-> "read", text |-> tk.args.query, names |-> << >>])

\* Array.prototype.join
RECURSIVE Join(_, _)
Join(items, sep) ==
  IF items = << >> THEN << >>
  ELSE IF Len(items) = 1 THEN items[1]
  ELSE items[1] \o <<sep>> \o Join(Tail(items), sep)

ListHead ==
  "SELECT TABLE_SCHEMA + '.' + TABLE_NAME as [table] FROM INFORMATION_SCHEMA.TABLES WHERE TABLE_TYPE = 'BASE TABLE' "
ListIn == "AND TABLE_SCHEMA IN ("
ListTail == " ORDER BY TABLE_SCHEMA, TABLE_NAME"

\* `'${p}'`
Quoted(p) == <<"'">> \o p \o <<"'">>

\* schemaFilter that is always the empty string
schemaFilter_None(a) == << >>

schemaFilter(a) ==
  IF HasFilter(a)
  THEN <<ListIn>>
       \o Join([i \in 1..Len(a.parameters) |-> Quoted(a.parameters[i])], ", ")
       \o <<")">>
  ELSE << >>

\* a string has a length but no map: the TypeError is caught by the
\* caller's catch like any other error
executeListTable(tk) ==
  IF tk.args.parameters = StringNames
  THEN Thrown(tk, "type")
  ELSE Issue(tk, [tpl |-> "list",
                  text |-> <<ListHead>> \o schemaFilter(tk.args) \o <<ListTail>>,
                  names |-> IF HasFilter(tk.args) THEN tk.args.parameters ELSE << >>])

executeDescribeTable(tk) ==
  IF Falsy(tk.args.tableName) \/ ~IsString(tk.args.tableName)
  THEN Reject(tk, BadCode(tk), "validation")
  ELSE Issue(tk, [tpl |-> "describe", text |-> tk.args.tableName, names |-> << >>])

\* AfterEnsure with a switch whose default falls into list_table
AfterEnsure_NoDefault(tk) ==
  CASE tk.kind = "startup" -> [tk EXCEPT !.pc = "done", !.resp = "listening"]
    [] tk.op = "read_data" -> executeReadData(tk)
    [] tk.op = "describe_table" -> executeDescribeTable(tk)
    [] OTHER -> executeListTable(tk)

\* what a handler does, without suspending, once ensureSqlConnection returned
AfterEnsure(tk) ==
  CASE tk.kind = "startup" -> [tk EXCEPT !.pc = "done", !.resp = "listening"]
    [] tk.op = "read_data" -> executeReadData(tk)
    [] tk.op = "list_table" -> executeListTable(tk)
    [] tk.op = "describe_table" -> executeDescribeTable(tk)
    [] OTHER -> Reject(tk, "isError", "unknown_tool")

Frame(t, tk) == [msg |-> t, from |-> tk.sess, resp |-> tk.resp]

\* mcpServer is one Server for all sessions and connect(transport) replaces
\* the transport it sends on: a response goes out on the transport that was
\* current when the request arrived or on the one current when the result
\* is ready, never on a transport looked up from the message's session
SendTargets(tk) == {tk.srv, serverTransport}

\* store the task; a finished protocol request sends its response frame,
\* a finished startup probe starts listening or exits
Settle(t, tk) ==
  /\ tasks' = [tasks EXCEPT ![t] = tk]
  /\ phase' = IF tk.kind = "startup" /\ tk.pc = "done"
              THEN (IF tk.resp = "exit" THEN "exited" ELSE "listening")
              ELSE phase
  /\ IF tk.pc = "done" /\ tk.kind \in {"call", "list"}
     THEN \E tgt \in SendTargets(tk) :
            streams' = IF tgt # NoSession /\ sessions[tgt] = "open"
                       THEN [streams EXCEPT ![tgt] = @ \cup {Frame(t, tk)}]
                       ELSE streams
     ELSE streams' = streams

Running == phase # "exited"
Awaiting(t, pc) == Running /\ tasks[t].pc = pc

\* ensureSqlConnection, from the call to its first await (or its return)
EnsureCall(t, tk) ==
  /\ UNCHANGED connVars
  /\ IF Valid
     THEN Settle(t, AfterEnsure(tk))
     ELSE Settle(t, [tk EXCEPT !.pc = "token", !.nTok = @ + 1])

\* createSqlConfig resolved: store token and expiry, close the old handle
\* if it reports connected, else open the new one
TokenOk(t) ==
  /\ Awaiting(t, "token")
  /\ \E life \in TokenLives :
       /\ nTokens' = nTokens + 1
       /\ globalAccessToken' = nTokens + 1
       /\ globalTokenExpiresOn' = now + life
  /\ globalSqlPool' = globalSqlPool
  /\ IF Connected(globalSqlPool)
     THEN /\ pools' = [pools EXCEPT ![globalSqlPool].state = "closing",
                                    ![globalSqlPool].closes = @ + 1]
          /\ Settle(t, [tasks[t] EXCEPT !.pc = "close", !.tok = nTokens + 1,
                                        !.closing = globalSqlPool, !.nClose = @ + 1])
     ELSE /\ pools' = pools
          /\ Settle(t, [tasks[t] EXCEPT !.pc = "connect", !.tok = nTokens + 1])
  /\ UNCHANGED <<env, now, transports, sessions, serverTransport, removals, requestCounts, admitted, last>>

TokenFail(t) ==
  /\ Awaiting(t, "token")
  /\ Settle(t, Thrown(tasks[t], "auth"))
  /\ UNCHANGED <<env, now, connVars, transports, sessions, serverTransport,
                 removals, requestCounts, admitted, last>>

\* globalSqlPool.close() resolved: sql.connect(config) is called
CloseOk(t) ==
  /\ Awaiting(t, "close")
  /\ pools' = [pools EXCEPT ![tasks[t].closing].state = "closed"]
  /\ Settle(t, [tasks[t] EXCEPT !.pc = "connect"])
  /\ UNCHANGED <<env, now, globalSqlPool, globalAccessToken, globalTokenExpiresOn,
                 nTokens, transports, sessions, serverTransport, removals, requestCounts, admitted, last>>

\* globalSqlPool.close() rejected: the error leaves ensureSqlConnection
CloseFail(t) ==
  /\ Awaiting(t, "close")
  /\ pools' = [pools EXCEPT ![tasks[t].closing].state = "closed"]
  /\ Settle(t, Thrown(tasks[t], "close"))
  /\ UNCHANGED <<env, now, globalSqlPool, globalAccessToken, globalTokenExpiresOn,
                 nTokens, transports, sessions, serverTransport, removals, requestCounts, admitted, last>>

NewPool(tok) == [state |-> "open", token |-> tok, closes |-> 0]

\* sql.connect(config) resolved: the new handle becomes the shared one
ConnectOk(t) ==
  /\ Awaiting(t, "connect")
  /\ pools' = Append(pools, NewPool(tasks[t].tok))
  /\ globalSqlPool' = Len(pools) + 1
  /\ Settle(t, AfterEnsure([tasks[t] EXCEPT !.nOpen = @ + 1]))
  /\ UNCHANGED <<env, now, globalAccessToken, globalTokenExpiresOn, nTokens,
                 transports, sessions, serverTransport, removals, requestCounts, admitted, last>>

\* a failed open answered by starting the acquisition over
ConnectFail_Retry(t) ==
  /\ Awaiting(t, "connect")
  /\ Settle(t, [tasks[t] EXCEPT !.pc = "token", !.nTok = @ + 1])
  /\ UNCHANGED <<env, now, connVars, transports, sessions, serverTransport,
                 removals, requestCounts, admitted, last>>

\* sql.connect(config) rejected: the error leaves ensureSqlConnection
ConnectFail(t) ==
  /\ Awaiting(t, "connect")
  /\ Settle(t, Thrown(tasks[t], "connect"))
  /\ UNCHANGED <<env, now, connVars, transports, sessions, serverTransport,
                 removals, requestCounts, admitted, last>>

OkCode(tk) == IF tk.kind = "rest" THEN "200" ELSE "result"

\* ------------------------------------------------------------ the database
\* INFORMATION_SCHEMA.TABLES, in the order of ORDER BY TABLE_SCHEMA, TABLE_NAME
Catalog ==
  << [schema |-> <<"dbo">>, name |-> "ActiveUsers", type |-> "VIEW"],
     [schema |-> <<"dbo">>, name |-> "Users", type |-> "BASE TABLE"],
     [schema |-> <<"Sales">>, name |-> "Orders", type |-> "BASE TABLE"] >>

\* INFORMATION_SCHEMA.COLUMNS
Columns ==
  << [table |-> <<"Users">>, name |-> "id"],
     [table |-> <<"Users">>, name |-> "email"],
     [table |-> <<"Orders">>, name |-> "id"] >>

At(s, i) == IF i \in 1..Len(s) THEN s[i] ELSE ""

\* the position of the quote that closes a literal whose text starts at j
RECURSIVE ClosingQuote(_, _)
ClosingQuote(s, j) ==
  IF j > Len(s) THEN 0 ELSE IF s[j] = "'" THEN j ELSE ClosingQuote(s, j + 1)

NoParse == [ok |-> FALSE, lits |-> {}, next |-> 0]

\* the literals of the IN list whose first literal opens at position i
RECURSIVE InList(_, _, _)
InList(s, i, acc) ==
  IF At(s, i) # "'" THEN NoParse
  ELSE LET j == ClosingQuote(s, i + 1) IN
       IF j = 0 THEN NoParse
       ELSE IF At(s, j + 1) = ", "
       THEN InList(s, j + 2, acc \cup {SubSeq(s, i + 1, j - 1)})
       ELSE IF At(s, j + 1) = ")"
       THEN [ok |-> TRUE, lits |-> acc \cup {SubSeq(s, i + 1, j - 1)}, next |-> j + 2]
       ELSE NoParse

NoWhere == [ok |-> FALSE, filter |-> FALSE, lits |-> {}, orTrue |-> FALSE]

\* OR ('a'='b') after the IN list, up to the ORDER BY
OrClause(s, k, lits) ==
  LET j1 == ClosingQuote(s, k + 3)
      j2 == IF j1 = 0 THEN 0 ELSE ClosingQuote(s, j1 + 3)
  IN IF /\ At(s, k) = " OR " /\ At(s, k + 1) = "(" /\ At(s, k + 2) = "'"
        /\ j1 # 0 /\ At(s, j1 + 1) = "=" /\ At(s, j1 + 2) = "'"
        /\ j2 # 0 /\ At(s, j2 + 1) = ")"
        /\ SubSeq(s, j2 + 2, Len(s)) = <<ListTail>>
     THEN [ok |-> TRUE, filter |-> TRUE, lits |-> lits,
           orTrue |-> SubSeq(s, k + 3, j1 - 1) = SubSeq(s, j1 + 3, j2 - 1)]
     ELSE NoWhere

\* the WHERE clause the server reads in the text of a list statement:
\* TABLE_TYPE = 'BASE TABLE' [AND TABLE_SCHEMA IN (...)] [OR (... = ...)]
ListWhere(s) ==
  IF s = <<ListHead, ListTail>>
  THEN [ok |-> TRUE, filter |-> FALSE, lits |-> {}, orTrue |-> FALSE]
  ELSE IF At(s, 1) # ListHead \/ At(s, 2) # ListIn THEN NoWhere
  ELSE LET p == InList(s, 3, {}) IN
       IF ~p.ok THEN NoWhere
       ELSE IF SubSeq(s, p.next, Len(s)) = <<ListTail>>
       THEN [ok |-> TRUE, filter |-> TRUE, lits |-> p.lits, orTrue |-> FALSE]
       ELSE OrClause(s, p.next, p.lits)

\* AND binds tighter than OR
ListRows(s) ==
  LET w == ListWhere(s)
      Test(r) == \/ r.type = "BASE TABLE" /\ (~w.filter \/ r.schema \in w.lits)
                 \/ w.orTrue
      sel == SelectSeq(Catalog, Test)
  IN [i \in 1..Len(sel) |-> sel[i].schema \o <<".", sel[i].name>>]

DescribeRows(tableName) ==
  LET Test(c) == c.table = tableName
      sel == SelectSeq(Columns, Test)
  IN [i \in 1..Len(sel) |-> <<sel[i].name>>]

\* the recordsets the server may answer a statement with; a text that does
\* not parse is answered by an error only
Answers(st) ==
  CASE st.tpl = "read" -> {[i \in 1..n |-> <<"row">>] : n \in 0..MaxRows}
    [] st.tpl = "list" -> IF ListWhere(st.text).ok THEN {ListRows(st.text)} ELSE {}
    [] st.tpl = "describe" -> {DescribeRows(st.text)}
    [] OTHER -> {}

\* Succeed with envelopes that never carry a count
Succeed_NoCount(tk) ==
  [tk EXCEPT !.pc = "done", !.resp = OkCode(tk),
             !.body = [success |-> TRUE,
                       rows |-> tk.recordset,
                       count |-> -1,
                       executedAt |-> IF tk.kind = "rest" THEN -1 ELSE now]]

\* the result envelope: the MCP executors add a count and executedAt to
\* the rows, of the legacy routes only /api/read_data adds a count
Succeed(tk) ==
  [tk EXCEPT !.pc = "done", !.resp = OkCode(tk),
             !.body = [success |-> TRUE,
                       rows |-> tk.recordset,
                       count |-> IF tk.kind = "rest" /\ tk.op # "read_data"
                                 THEN -1 ELSE Len(tk.recordset),
                       executedAt |-> IF tk.kind = "rest" THEN -1 ELSE now]]

\* request.query resolved
QueryOk(t) ==
  /\ Awaiting(t, "query")
  /\ Connected(tasks[t].ranOn)
  /\ \E rs \in Answers(tasks[t].stmt) :
       Settle(t, Succeed([tasks[t] EXCEPT !.recordset = rs]))
  /\ UNCHANGED <<env, now, connVars, transports, sessions, serverTransport,
                 removals, requestCounts, admitted, last>>

\* request.query rejected
QueryFail(t) ==
  /\ Awaiting(t, "query")
  /\ Settle(t, Thrown(tasks[t], "exec"))
  /\ UNCHANGED <<env, now, connVars, transports, sessions, serverTransport,
                 removals, requestCounts, admitted, last>>

\* the clock advances by d milliseconds
Tick(d) ==
  /\ Running
  /\ now < MaxTicks * d
  /\ now' = now + d
  /\ UNCHANGED <<env, phase, connVars, tasks, sessVars, requestCounts, admitted, last>>

\* the startup probe of startServer
StartupStep == TokenOk(0) \/ TokenFail(0) \/ ConnectOk(0) \/ ConnectFail(0)

\* the database answers a statement
QueryStep == \E t \in TaskIds : QueryOk(t) \/ QueryFail(t)

\* every continuation of a suspended handler
ConnStep ==
  \E t \in TaskIds :
    \/ TokenOk(t) \/ TokenFail(t)
    \/ CloseOk(t) \/ CloseFail(t)
    \/ ConnectOk(t) \/ ConnectFail(t)
    \/ QueryOk(t) \/ QueryFail(t)

\* ------------------------------------------------------------ HTTP requests
Request(m, p, c, hs, qs, rpc, name, a) ==
  [method |-> m, path |-> p, cred |-> c, hSession |-> hs, qSession |-> qs,
   rpc |-> rpc, name |-> name, args |-> a]

Get(p, c) == Request("GET", p, c, Undefined, Undefined, "none", "none", NoArgs)

NextTask == CHOOSE t \in 1..(MaxTasks + 1) : t = MaxTasks + 1 \/ tasks[t].pc = "free"

Exchange(req, status, reached, looked, t) ==
  [method |-> req.method, path |-> req.path, cred |-> req.cred,
   hSession |-> req.hSession, qSession |-> req.qSession,
   status |-> status, reached |-> reached, looked |-> looked, task |-> t,
   retryAfter |-> -1, retryAt |-> -1]

\* ------------------------------------------------- server.ts (legacy REST)
\* app.post('/api/read_data' | '/api/list_table' | '/api/describe_table')
LegacyApi(req) ==
  /\ req.rpc = "rest"
  /\ NextTask <= MaxTasks
  /\ EnsureCall(NextTask, [FreeTask EXCEPT !.kind = "rest", !.op = req.name,
                                           !.args = req.args])
  /\ last' = Exchange(req, "pending", TRUE, FALSE, NextTask)
  /\ UNCHANGED <<env, now, transports, sessions, serverTransport, removals,
                 requestCounts, admitted>>

\* app.get('/health'), app.get('/info')
LegacyGet(req) ==
  /\ req.method = "GET"
  /\ last' = Exchange(req, "200", TRUE, FALSE, -1)
  /\ UNCHANGED <<env, phase, now, connVars, tasks, sessVars, requestCounts, admitted>>

\* server.ts registers cors and express.json only, then the routes
LegacyRequest(reqs) ==
  /\ phase = "listening"
  /\ env.program = "legacy"
  /\ \E req \in reqs : LegacyApi(req) \/ LegacyGet(req)

\* ------------------------------------------------------------ Access Guard
\* the extraction with the query parameter consulted first
RequestKey_QueryFirst(c) ==
  Or(Or(c.q, c.x), IF c.auth = Undefined THEN Undefined ELSE ReplaceBearer(c.auth))

\* req.headers['x-api-key'] || authorization?.replace('Bearer ', '') || req.query.apiKey
RequestKey(c) ==
  Or(Or(c.x, IF c.auth = Undefined THEN Undefined ELSE ReplaceBearer(c.auth)), c.q)

\* apiKeyAuth without the comparison against API_KEY
apiKeyAuth_PresenceOnly(req) ==
  IF req.path = "/health" THEN "next"
  ELSE IF Falsy(env.apiKey) THEN "next"
  ELSE IF Falsy(RequestKey(req.cred)) THEN "401"
  ELSE "next"

apiKeyAuth(req) ==
  IF req.path = "/health" THEN "next"
  ELSE IF Falsy(env.apiKey) THEN "next"
  ELSE IF Falsy(RequestKey(req.cred)) THEN "401"
  ELSE IF RequestKey(req.cred) # env.apiKey THEN "403"
  ELSE "next"

RateKey(c) ==
  Or(Or(c.x, IF c.auth = Undefined THEN Undefined ELSE ReplaceBearer(c.auth)), Anonymous)

Expired(k) == k \notin DOMAIN requestCounts \/ now > requestCounts[k].resetTime

\* rateLimiter rejecting only once the count is above maxRequests
rateLimiter_OffByOne(req) ==
  IF Expired(RateKey(req.cred)) THEN "next"
  ELSE IF requestCounts[RateKey(req.cred)].count > env.maxRequests THEN "429"
  ELSE "next"

\* the middleware returned by rateLimiter(maxRequests, windowMs)
rateLimiter(req) ==
  IF Expired(RateKey(req.cred)) THEN "next"
  ELSE IF requestCounts[RateKey(req.cred)].count >= env.maxRequests THEN "429"
  ELSE "next"

Counted(req) ==
  LET k == RateKey(req.cred) IN
  IF Expired(k)
  THEN (k :> [count |-> 1, resetTime |-> now + env.windowMs]) @@ requestCounts
  ELSE IF requestCounts[k].count >= env.maxRequests THEN requestCounts
  ELSE [requestCounts EXCEPT ![k].count = @ + 1]

\* Math.ceil(a / b) for a >= 0, b > 0
Ceil(a, b) == (a + b - 1) \div b

\* the retryAfter field of the 429 body
RetryAfter(req) == Ceil(requestCounts[RateKey(req.cred)].resetTime - now, SecondMs)

\* app.use(apiKeyAuth) and app.use(rateLimiter(...)) are registered only
\* when API_KEY is set, the limiter only when ENABLE_RATE_LIMITING is 'true'
\* the middleware registration left out
AuthInstalled_Never == FALSE

AuthInstalled == ~Falsy(env.apiKey)
LimiterInstalled == AuthInstalled /\ env.rateLimit

Guard(req) ==
  LET a == IF AuthInstalled THEN apiKeyAuth(req) ELSE "next" IN
  IF a # "next" THEN a
  ELSE IF LimiterInstalled THEN rateLimiter(req) ELSE "next"

\* the limiter registered ahead of apiKeyAuth: it counts every request
GuardCounts_BeforeCheck(req) ==
  IF LimiterInstalled THEN Counted(req) ELSE requestCounts

GuardCounts(req) ==
  IF AuthInstalled /\ apiKeyAuth(req) = "next" /\ LimiterInstalled
  THEN Counted(req) ELSE requestCounts

\* history of the calls of next() by the limiter: per key, the first
\* request it passed on opens a window of windowMs, later ones inside the
\* window are added to it, one after the window opens the next window
Admitted(req) ==
  LET k == RateKey(req.cred) IN
  IF ~(LimiterInstalled /\ Guard(req) = "next") THEN admitted
  ELSE IF k \in DOMAIN admitted /\ now <= admitted[k].start + env.windowMs
  THEN [admitted EXCEPT ![k].n = @ + 1]
  ELSE (k :> [start |-> now, n |-> 1]) @@ admitted

\* ------------------------------------------------ mcp-server.ts (MCP/SSE)
SidOf(s) == <<ToString(s)>>
\* a registry from which closed sessions are never deleted
Lookup_Ever(sid) == {s \in SessionIds : sessions[s] # "none" /\ SidOf(s) = sid}

Lookup(sid) == {s \in transports : SidOf(s) = sid}

\* an identifier generator that hands out the identifier of a closed session
NextSession_Reuse ==
  CHOOSE s \in 1..(MaxSessions + 1) : s = MaxSessions + 1 \/ s \notin transports

\* the SSEServerTransport constructor draws a fresh sessionId (a random UUID):
\* the next identifier is one no session has had
NextSession ==
  CHOOSE s \in 1..(MaxSessions + 1) : s = MaxSessions + 1 \/ sessions[s] = "none"

\* a request stopped by a middleware
Rejected(req) ==
  /\ Guard(req) # "next"
  /\ last' = [Exchange(req, Guard(req), FALSE, FALSE, -1) EXCEPT
                !.retryAfter = IF Guard(req) = "429" THEN RetryAfter(req) ELSE -1,
                !.retryAt = IF Guard(req) = "429"
                            THEN now + RetryAfter(req) * SecondMs ELSE -1]
  /\ UNCHANGED <<phase, connVars, tasks, sessVars>>

\* app.get('/health')
Health(req) ==
  /\ Guard(req) = "next"
  /\ req.method = "GET" /\ req.path = "/health"
  /\ last' = Exchange(req, "200", TRUE, FALSE, -1)
  /\ UNCHANGED <<phase, connVars, tasks, sessVars>>

\* app.get('/sse'): create the transport, register it, set onclose,
\* connect the one mcpServer to it
SseGet(req) ==
  /\ Guard(req) = "next"
  /\ req.method = "GET" /\ req.path = "/sse"
  /\ NextSession <= MaxSessions
  /\ transports' = transports \cup {NextSession}
  /\ sessions' = [sessions EXCEPT ![NextSession] = "establishing"]
  /\ serverTransport' = NextSession
  /\ last' = Exchange(req, "stream", TRUE, FALSE, -1)
  /\ UNCHANGED <<phase, connVars, tasks, streams, removals>>

Property(n, ty, it) == [name |-> n, type |-> ty, items |-> it]

\* the tools array with a fourth tool that writes
tools_WithWrite ==
  << [name |-> "read_data",
      properties |-> {Property("query", "string", "none")},
      required |-> {"query"}],
     [name |-> "list_table",
      properties |-> {Property("parameters", "array", "string")},
      required |-> {}],
     [name |-> "describe_table",
      properties |-> {Property("tableName", "string", "none")},
      required |-> {"tableName"}],
     [name |-> "insert_data",
      properties |-> {Property("query", "string", "none")},
      required |-> {"query"}] >>

\* const tools: name, inputSchema.properties and inputSchema.required
tools ==
  << [name |-> "read_data",
      properties |-> {Property("query", "string", "none")},
      required |-> {"query"}],
     [name |-> "list_table",
      properties |-> {Property("parameters", "array", "string")},
      required |-> {}],
     [name |-> "describe_table",
      properties |-> {Property("tableName", "string", "none")},
      required |-> {"tableName"}] >>

\* transport.handlePostMessage: acknowledge, then hand the message to the
\* Server, whose handlers are ListTools and CallTool
Dispatch(req, s) ==
  LET tk == [FreeTask EXCEPT !.kind = IF req.rpc = "tools/list" THEN "list" ELSE "call",
                             !.op = req.name, !.args = req.args,
                             !.sess = s, !.srv = serverTransport]
  IN IF req.rpc = "tools/list"
     THEN /\ Settle(NextTask, [tk EXCEPT !.pc = "done", !.resp = "result",
                                         !.listed = tools])
          /\ UNCHANGED connVars
     ELSE EnsureCall(NextTask, tk)

\* Resolve with the registry lookup ahead of the missing-identifier test
Resolve_LookupFirst(sessionId) ==
  IF Lookup(sessionId) = {} THEN [status |-> "404", looked |-> TRUE]
  ELSE IF Falsy(sessionId) THEN [status |-> "400", looked |-> FALSE]
  ELSE [status |-> "handle", looked |-> TRUE]

\* app.post('/sse'), up to the call of handlePostMessage: the direct
\* response and whether transports.get was evaluated
Resolve(sessionId) ==
  IF Falsy(sessionId) THEN [status |-> "400", looked |-> FALSE]
  ELSE IF Lookup(sessionId) = {} THEN [status |-> "404", looked |-> TRUE]
  ELSE [status |-> "handle", looked |-> TRUE]

\* the session identifier read from the query parameter before the header
SessionIdOf_QueryFirst(req) == Or(req.qSession, req.hSession)

\* req.headers['x-mcp-session-id'] || req.query.sessionId
SessionIdOf(req) == Or(req.hSession, req.qSession)

\* app.post('/sse')
SsePost(req) ==
  /\ Guard(req) = "next"
  /\ req.method = "POST" /\ req.path = "/sse"
  /\ LET sessionId == SessionIdOf(req)
         r == Resolve(sessionId)
     IN IF r.status # "handle"
        THEN /\ last' = Exchange(req, r.status, TRUE, r.looked, -1)
             /\ UNCHANGED <<phase, connVars, tasks, streams>>
        ELSE \E s \in Lookup(sessionId) :
               IF sessions[s] # "open"
               THEN /\ last' = Exchange(req, "500", TRUE, r.looked, -1)
                    /\ UNCHANGED <<phase, connVars, tasks, streams>>
               ELSE /\ NextTask <= MaxTasks /\ NextTask <= MaxMessages
                    /\ last' = Exchange(req, "202", TRUE, r.looked, NextTask)
                    /\ Dispatch(req, s)
  /\ UNCHANGED <<transports, sessions, serverTransport, removals>>

McpRequest(reqs) ==
  /\ phase = "listening"
  /\ env.program = "mcp"
  /\ \E req \in reqs :
       /\ requestCounts' = GuardCounts(req)
       /\ admitted' = Admitted(req)
       /\ Rejected(req) \/ Health(req) \/ SseGet(req) \/ SsePost(req)
  /\ UNCHANGED <<env, now>>

\* mcpServer.connect and transport.start resolved: the stream is open
SseStarted(s) ==
  /\ Running
  /\ sessions[s] = "establishing"
  /\ sessions' = [sessions EXCEPT ![s] = "open"]
  /\ UNCHANGED <<env, phase, now, connVars, tasks, transports, serverTransport,
                 streams, removals, requestCounts, admitted, last>>

\* mcpServer.connect or transport.start rejected: the rejection leaves the
\* GET /sse handler, which has no catch; the transport stays in the registry
SseFailed(s) ==
  /\ Running
  /\ sessions[s] = "establishing"
  /\ sessions' = [sessions EXCEPT ![s] = "failed"]
  /\ UNCHANGED <<env, phase, now, connVars, tasks, transports, serverTransport,
                 streams, removals, requestCounts, admitted, last>>

\* SseClosed with an onclose that leaves the registry alone
SseClosed_NoDelete(s) ==
  /\ Running
  /\ sessions[s] \in {"establishing", "open", "failed", "closed"}
  /\ removals[s] < MaxCloseSignals
  /\ removals' = [removals EXCEPT ![s] = @ + 1]
  /\ sessions' = [sessions EXCEPT ![s] = "closed"]
  /\ transports' = transports
  /\ serverTransport' = IF serverTransport = s THEN NoSession ELSE serverTransport
  /\ UNCHANGED <<env, phase, now, connVars, tasks, streams, requestCounts, admitted, last>>

\* the transport signals closure (the response's close event, or close()
\* followed by that event): transport.onclose runs transports.delete
SseClosed(s) ==
  /\ Running
  /\ sessions[s] \in {"establishing", "open", "failed", "closed"}
  /\ removals[s] < MaxCloseSignals
  /\ removals' = [removals EXCEPT ![s] = @ + 1]
  /\ sessions' = [sessions EXCEPT ![s] = "closed"]
  /\ transports' = transports \ {s}
  /\ serverTransport' = IF serverTransport = s THEN NoSession ELSE serverTransport
  /\ UNCHANGED <<env, phase, now, connVars, tasks, streams, requestCounts, admitted, last>>

SessionStep == \E s \in SessionIds : SseStarted(s) \/ SseClosed(s)

\* ---------------------------------------------------------------- initial
InitWith(e) ==
  /\ env = e
  /\ phase = "starting"
  /\ now = 0
  /\ globalSqlPool = NoPool
  /\ globalAccessToken = NoToken
  /\ globalTokenExpiresOn = NoDate
  /\ pools = << >>
  /\ nTokens = 0
  /\ tasks = [t \in TaskIds |->
                IF t = 0
                THEN [FreeTask EXCEPT !.pc = "token", !.kind = "startup", !.nTok = 1]
                ELSE FreeTask]
  /\ transports = {}
  /\ sessions = [s \in SessionIds |-> "none"]
  /\ serverTransport = NoSession
  /\ streams = [s \in SessionIds |-> {}]
  /\ removals = [s \in SessionIds |-> 0]
  /\ requestCounts = << >>
  /\ admitted = << >>
  /\ last = NoExchange

Env(prog, key, rl, max, win) ==
  [program |-> prog, apiKey |-> key, rateLimit |-> rl, maxRequests |-> max,
   windowMs |-> win]

\* ------------------------------------------- the legacy REST server, racing
LegacyRequests ==
  {Get("/health", NoCred)}
  \cup
  { Request("POST", "/api/" \o op, c, Undefined, Undefined, "rest", op, NoArgs) :
      op \in {"list_table", "describe_table"},
      c \in {NoCred, [NoCred EXCEPT !.x = GoodKey]} }

InitLegacy == InitWith(Env("legacy", GoodKey, FALSE, 100, MinuteMs))

NextLegacy ==
  ConnStep \/ Tick(MinuteMs) \/ LegacyRequest(LegacyRequests)

SpecLegacy == InitLegacy /\ [][NextLegacy]_vars

\* ----------------------------------------------- the MCP server, sessions
SessionCalls ==
  { [rpc |-> "tools/list", name |-> "none", args |-> NoArgs],
    [rpc |-> "tools/call", name |-> "list_table", args |-> NoArgs] }

SessionRequests ==
  {Get("/sse", NoCred)}
  \cup
  { Request("POST", "/sse", NoCred, hs, Undefined, m.rpc, m.name, m.args) :
      hs \in {Undefined} \cup {SidOf(s) : s \in SessionIds}, m \in SessionCalls }

Init == InitWith(Env("mcp", Undefined, FALSE, 100, MinuteMs))

Next ==
  StartupStep \/ QueryStep \/ SessionStep \/ McpRequest(SessionRequests)

Spec == Init /\ [][Next]_vars

\* ------------------------------------------- the MCP server, Access Guard
Creds ==
  { NoCred,
    [NoCred EXCEPT !.x = GoodKey],
    [NoCred EXCEPT !.x = BadKey],
    [NoCred EXCEPT !.auth = <<"Bearer ", "k1">>] }

GuardRequests ==
  { Get(p, c) : p \in {"/health", "/sse"}, c \in Creds }
  \cup
  { Request("POST", "/sse", c, Undefined, qs, "tools/list", "none", NoArgs) :
      c \in Creds, qs \in {Undefined, <<"stale">>} }

InitGuard ==
  \E key \in {Undefined, GoodKey}, rl \in BOOLEAN :
    InitWith(Env("mcp", key, rl, 2, SecondMs))

NextGuard ==
  StartupStep \/ Tick(SecondMs) \/ McpRequest(GuardRequests)

SpecGuard == InitGuard /\ [][NextGuard]_vars

\* ------------------------- both servers, the shared connection going stale
DeleteText == <<"d", "e", "l", "e", "t", "e", " ", "t">>
SelectText == <<" ", "s", "e", "l", "e", "c", "t", " ", "1">>

\* read_data arguments that fail its validation; a tool that does not exist
StaleCalls ==
  { [rpc |-> "tools/call", name |-> "read_data", args |-> [NoArgs EXCEPT !.query = q]] :
      q \in {Undefined, DeleteText} }
  \cup
  { [rpc |-> "tools/call", name |-> "drop_table", args |-> NoArgs] }

StaleRequests ==
  {Get("/sse", NoCred)}
  \cup
  { Request("POST", "/sse", NoCred, SidOf(1), Undefined, m.rpc, m.name, m.args) :
      m \in StaleCalls }

StaleLegacyRequests ==
  { Request("POST", "/api/read_data", NoCred, Undefined, Undefined, "rest",
            "read_data", [NoArgs EXCEPT !.query = q]) :
      q \in {NonString, DeleteText, SelectText} }

InitStale ==
  \E prog \in {"mcp", "legacy"} :
    InitWith(Env(prog, Undefined, FALSE, 100, MinuteMs))

NextStale ==
  \/ ConnStep
  \/ Tick(MinuteMs)
  \/ \E s \in SessionIds : SseStarted(s)
  \/ McpRequest(StaleRequests)
  \/ LegacyRequest(StaleLegacyRequests)

SpecStale == InitStale /\ [][NextStale]_vars

\* ------------------------------------- both servers, the Query Executors
BatchText == <<"S", "E", "L", "E", "C", "T", " ", "1", ";", "DROP TABLE Users">>

\* a schema name that closes its own literal
QuoteName == <<"x", "'", ")", " OR ", "(", "'", "1", "'", "=", "'", "1">>

ExecArgs ==
  [read_data |->
     {[NoArgs EXCEPT !.query = q] : q \in {DeleteText, SelectText, BatchText}},
   list_table |->
     {[NoArgs EXCEPT !.parameters = ns] :
        ns \in {NoNames, << <<"Sales">> >>, << <<"Sales">>, <<"HR">> >>, <<QuoteName>>}}]

ExecRequests ==
  {Get("/sse", NoCred)}
  \cup
  {Request("POST", "/sse", NoCred, SidOf(1), Undefined, "tools/list", "none", NoArgs)}
  \cup
  UNION { { Request("POST", "/sse", NoCred, SidOf(1), Undefined, "tools/call", op, a) :
              a \in ExecArgs[op] } : op \in DOMAIN ExecArgs }

ExecLegacyRequests ==
  UNION { { Request("POST", "/api/" \o op, NoCred, Undefined, Undefined, "rest", op, a) :
              a \in ExecArgs[op] } : op \in DOMAIN ExecArgs }

InitExec ==
  \E prog \in {"mcp", "legacy"} :
    InitWith(Env(prog, Undefined, FALSE, 100, MinuteMs))

NextExec ==
  \/ StartupStep
  \/ QueryStep
  \/ \E s \in SessionIds : SseStarted(s)
  \/ McpRequest(ExecRequests)
  \/ LegacyRequest(ExecLegacyRequests)

SpecExec == InitExec /\ [][NextExec]_vars

\* ------------------------------- the MCP server, establishment and routing
StreamIds == {Undefined, << >>, SidOf(1), SidOf(2)}

StreamRequests ==
  {Get("/sse", NoCred)}
  \cup
  { Request("POST", "/sse", NoCred, hs, qs, "tools/list", "none", NoArgs) :
      hs \in StreamIds, qs \in StreamIds \ {<< >>} }

\* every await of the GET /sse handler settles, one way or the other
Established(s) == SseStarted(s) \/ SseFailed(s)

NextStream ==
  \/ StartupStep
  \/ \E s \in SessionIds : Established(s) \/ SseClosed(s)
  \/ McpRequest(StreamRequests)

\* the event loop runs every settled continuation; clients are free to send
\* nothing and to keep their streams open
SpecStream ==
  /\ Init /\ [][NextStream]_vars
  /\ WF_vars(StartupStep)
  /\ \A s \in SessionIds : WF_vars(Established(s))

\* ------------------------------- the MCP server, the credential channels
AllCreds ==
  { [x |-> x, auth |-> a, q |-> q] :
      x \in {Undefined, GoodKey, BadKey},
      a \in {Undefined, <<"Bearer ", "k1">>, <<"Bearer ", "wrong-key">>},
      q \in {Undefined, GoodKey, BadKey} }

CredRequests == { Get(p, c) : p \in {"/health", "/sse"}, c \in AllCreds }

InitCred == InitWith(Env("mcp", GoodKey, FALSE, 100, MinuteMs))

NextCred ==
  StartupStep \/ SessionStep \/ McpRequest(CredRequests)

SpecCred == InitCred /\ [][NextCred]_vars

\* ------------------------ the MCP server, one credential on three channels
LimitCreds ==
  { [NoCred EXCEPT !.x = GoodKey],
    [NoCred EXCEPT !.auth = <<"Bearer ", "k1">>],
    [NoCred EXCEPT !.q = GoodKey] }

\* POST /sse without a session identifier is answered 400 by its handler
LimitRequests ==
  {Get("/health", NoCred)}
  \cup
  { Request("POST", "/sse", c, Undefined, Undefined, "tools/list", "none", NoArgs) :
      c \in LimitCreds }

InitLimit == InitWith(Env("mcp", GoodKey, TRUE, 2, SecondMs))

NextLimit ==
  StartupStep \/ Tick(SecondMs) \/ McpRequest(LimitRequests)

SpecLimit == InitLimit /\ [][NextLimit]_vars

\* ---------------------------------- both servers, malformed argument objects
ShapeArgs ==
  [list_table |->
     {[NoArgs EXCEPT !.parameters = ns] :
        ns \in {NumberNames, StringNames, <<NonString, <<"Sales">>>>, << <<"Sales">> >>}},
   describe_table |->
     {[NoArgs EXCEPT !.tableName = n] : n \in {Undefined, NonString, <<"Users">>}}]

ShapeRequests ==
  {Get("/sse", NoCred)}
  \cup
  UNION { { Request("POST", "/sse", NoCred, SidOf(1), Undefined, "tools/call", op, a) :
              a \in ShapeArgs[op] } : op \in DOMAIN ShapeArgs }

ShapeLegacyRequests ==
  UNION { { Request("POST", "/api/" \o op, NoCred, Undefined, Undefined, "rest", op, a) :
              a \in ShapeArgs[op] } : op \in DOMAIN ShapeArgs }

NextShape ==
  \/ StartupStep
  \/ QueryStep
  \/ \E s \in SessionIds : SseStarted(s)
  \/ McpRequest(ShapeRequests)
  \/ LegacyRequest(ShapeLegacyRequests)

SpecShape == InitExec /\ [][NextShape]_vars

\* ------------------------ the MCP server, the limiter on a half-second clock
RetryRequests ==
  { Request("POST", "/sse", [NoCred EXCEPT !.x = GoodKey], Undefined, Undefined,
            "tools/list", "none", NoArgs),
    Get("/health", [NoCred EXCEPT !.x = GoodKey]) }

InitRetry ==
  \E win \in {SecondMs, SecondMs + SecondMs \div 2} :
    InitWith(Env("mcp", GoodKey, TRUE, 1, win))

NextRetry ==
  StartupStep \/ Tick(SecondMs \div 2) \/ McpRequest(RetryRequests)

SpecRetry == InitRetry /\ [][NextRetry]_vars

\* -------------------- the MCP server, sessions, with responsive upstreams
\* the Token Provider and the database answer every call in the end, and
\* the event loop runs the continuation; clients are free to send nothing
\* and to keep their streams open
SpecAnswer ==
  /\ Init /\ [][Next]_vars
  /\ WF_vars(StartupStep)
  /\ WF_vars(QueryStep)
  /\ \A s \in SessionIds : WF_vars(SseStarted(s))

\* ================================================================== claims
\* a handler invocation begins in this step: its task leaves "free"
Begun(t) == tasks[t].pc = "free" /\ tasks'[t].pc # "free"

\* a request has been answered (or accepted) in this step
Exchanged == last' # last

LiveHandles == {p \in 1..Len(pools) : pools[p].state = "open"}

\* C1: for every interleaving of concurrent ensureSqlConnection calls, at
\* most one opened and not yet closed connection handle exists at any time
C1_AtMostOneLiveHandle == Cardinality(LiveHandles) <= 1

\* C2: the response to a message submitted with session identifier S is
\* delivered on the stream registered for S and on no other session's
\* stream, whatever other sessions are established or closed meanwhile
C2_ResponseOnOwnStream ==
  \A s \in SessionIds : \A f \in streams[s] : f.from = s

\* the precondition of the fast path as the specification words it
C3_Fresh ==
  /\ globalSqlPool # NoPool
  /\ pools[globalSqlPool].state = "open"
  /\ globalTokenExpiresOn # NoDate
  /\ globalTokenExpiresOn - now > 2 * 60 * 1000

\* C3: when a handle exists, reports connected and the stored expiry is
\* more than 2 minutes away, an acquisition (concurrent ones included)
\* returns the existing handle at once, requests no token, opens and closes
\* nothing and leaves the shared (handle, token, expiry) state unchanged
C3_FastPathLeavesStateAlone ==
  [][\A t \in 1..MaxTasks :
       (Begun(t) /\ tasks'[t].kind = "rest" /\ C3_Fresh) =>
         /\ tasks'[t].nTok = 0 /\ tasks'[t].nOpen = 0 /\ tasks'[t].nClose = 0
         /\ tasks'[t].pc \in {"query", "done"}
         /\ (tasks'[t].pc = "query" => tasks'[t].ranOn = globalSqlPool)
         /\ UNCHANGED connVars]_vars

\* two concurrent acquisitions both took the fast path on the startup handle
C3_Witness ==
  \E t, u \in 1..MaxTasks :
    /\ t # u
    /\ tasks[t].pc = "query" /\ tasks[u].pc = "query"
    /\ tasks[t].nTok = 0 /\ tasks[u].nTok = 0
    /\ tasks[t].ranOn = globalSqlPool /\ tasks[u].ranOn = globalSqlPool
    /\ nTokens = 1

\* C4: once a session has been closed the registry never resolves its
\* identifier again (a POST carrying it is answered 404), and a further
\* removal of the already absent identifier changes nothing
C4_ClosedSessionsStayUnresolved ==
  /\ [](\A s \in SessionIds : sessions[s] = "closed" => Lookup(SidOf(s)) = {})
  /\ [][\A s \in SessionIds :
          sessions[s] = "closed" =>
            /\ sessions'[s] = "closed"
            /\ s \notin transports'
            /\ (removals'[s] > removals[s] => transports' = transports)
            /\ (Exchanged /\ last'.method = "POST" /\ last'.hSession = SidOf(s)
                  => last'.status = "404")]_vars

\* a closed session whose close callback ran twice, then asked for by a POST
C4_Witness ==
  \E s \in SessionIds :
    /\ sessions[s] = "closed" /\ removals[s] = 2
    /\ last.method = "POST" /\ last.hSession = SidOf(s) /\ last.status = "404"

\* C5: a POST /sse that carries neither the x-mcp-session-id header nor the
\* sessionId query parameter and reaches the endpoint is answered 400
\* without a registry lookup; nothing is forwarded and the registry and the
\* connection state are unchanged
C5_MissingSessionId ==
  [][(/\ Exchanged
      /\ last'.method = "POST" /\ last'.path = "/sse" /\ last'.reached
      /\ last'.hSession = Undefined /\ last'.qSession = Undefined) =>
       /\ last'.status = "400"
       /\ ~last'.looked
       /\ last'.task = -1
       /\ UNCHANGED <<tasks, sessVars, connVars>>]_vars

\* an authenticated POST without session identifier, answered 400 while a
\* session is registered
C5_Witness ==
  /\ last.method = "POST" /\ last.path = "/sse" /\ last.status = "400"
  /\ last.hSession = Undefined /\ last.qSession = Undefined
  /\ AuthInstalled
  /\ transports # {}

\* the session identifier a POST carries does not name a registered session
C6_Unregistered(x) ==
  /\ ~(x.hSession = Undefined /\ x.qSession = Undefined)
  /\ \A s \in transports : SidOf(s) \notin {x.hSession, x.qSession}

\* C6: a POST /sse whose session identifier does not resolve in the
\* registry is answered 404; the body is forwarded to no session, no
\* operation runs and the registry is unchanged
C6_SessionNotFound ==
  [][(/\ Exchanged
      /\ last'.method = "POST" /\ last'.path = "/sse" /\ last'.reached
      /\ C6_Unregistered(last')) =>
       /\ last'.status = "404"
       /\ last'.task = -1
       /\ UNCHANGED <<tasks, sessVars, connVars>>]_vars

\* a POST for an identifier never issued, answered 404 while another
\* session is open
C6_Witness ==
  /\ last.method = "POST" /\ last.status = "404"
  /\ \E s \in SessionIds : last.hSession = SidOf(s) /\ sessions[s] = "none"
  /\ \E s \in SessionIds : sessions[s] = "open"

\* C7: a request to /health is never rejected by the Access Guard, whatever
\* the credential configuration, the credential presented and the state of
\* the rate-limit counters: it always receives the success body
C7_HealthNeverRejected ==
  last.path = "/health" => last.status = "200" /\ last.reached

\* the credentials a request presents, over the three channels
C8_Bearer(a) == IF Len(a) = 2 /\ a[1] = "Bearer " THEN <<a[2]>> ELSE Undefined
C8_Presented(c) == {c.x, C8_Bearer(c.auth), c.q} \ {Undefined}

\* C8: with a credential configured, a non-health request presenting no
\* credential gets 401, one presenting a different credential gets 403, and
\* only a request presenting the configured credential reaches its handler
C8_CredentialCheck ==
  (env.apiKey # Undefined /\ last.path \notin {"none", "/health"}) =>
    /\ (C8_Presented(last.cred) = {} => last.status = "401")
    /\ (C8_Presented(last.cred) \notin {{}, {env.apiKey}} => last.status = "403")
    /\ (last.reached => C8_Presented(last.cred) = {env.apiKey})

\* a wrong key was refused after a stream had been opened with the right one
C8_Witness ==
  /\ env.apiKey # Undefined
  /\ last.status = "403" /\ last.cred.x = BadKey
  /\ transports # {}

\* C9: with a credential configured, GET /sse with a wrong x-api-key gets
\* 403 and creates no session: the registry is the same before and after
C9_WrongKeyCreatesNoSession ==
  [][(/\ env.apiKey # Undefined
      /\ Exchanged
      /\ last'.method = "GET" /\ last'.path = "/sse"
      /\ last'.cred.x = BadKey) =>
       /\ last'.status = "403"
       /\ ~last'.reached
       /\ UNCHANGED <<transports, sessions, serverTransport>>]_vars

\* GET /sse with the wrong key refused while no session exists
C9_Witness ==
  /\ env.apiKey # Undefined
  /\ last.method = "GET" /\ last.path = "/sse" /\ last.cred.x = BadKey
  /\ last.status = "403"
  /\ transports = {}
  /\ phase = "listening"

\* C10: with a credential configured, every request to a path other than
\* /health, the legacy /api endpoints included, passes the credential check
\* before its handler runs: without the matching credential no statement
\* is issued
C10_EveryPathGuarded ==
  (env.apiKey # Undefined /\ last.path \notin {"none", "/health"} /\ last.reached) =>
    C8_Presented(last.cred) = {env.apiKey}

\* C11: with the rate limiter running with maximum M >= 1 and window W, per
\* key and window (from the first request counted for the key until its
\* reset time) at most M requests are passed on, and every further request
\* of that key inside the window is answered 429 with a retry-after hint:
\* the whole seconds, rounded up, until the window's reset time
C11_AtMostMaxPerWindow ==
  /\ [](\A k \in DOMAIN admitted : admitted[k].n <= env.maxRequests)
  /\ [][(last' # last /\ last'.status = "429") =>
          LET k == RateKey(last'.cred) IN
            /\ k \in DOMAIN admitted
            /\ admitted[k].n = env.maxRequests
            /\ now <= admitted[k].start + env.windowMs
            /\ last'.retryAfter * SecondMs >= admitted[k].start + env.windowMs - now
            /\ (last'.retryAfter - 1) * SecondMs < admitted[k].start + env.windowMs - now
            /\ admitted' = admitted]_vars
  /\ [][(/\ LimiterInstalled /\ last' # last
         /\ last'.status \notin {"401", "403", "429"}) =>
          LET k == RateKey(last'.cred) IN
            ~(/\ k \in DOMAIN admitted
              /\ now <= admitted[k].start + env.windowMs
              /\ admitted[k].n >= env.maxRequests)]_vars

\* the configured key used up its window and is refused at the very instant
\* the window resets, while the anonymous key still has room
C11_Witness ==
  /\ last.status = "429" /\ last.cred.x = GoodKey /\ last.retryAfter = 0
  /\ admitted[GoodKey].n = env.maxRequests
  /\ now = admitted[GoodKey].start + env.windowMs
  /\ Anonymous \in DOMAIN admitted /\ admitted[Anonymous].n < env.maxRequests

\* a query text that, leading blanks dropped and letters upper-cased,
\* begins with SELECT
BeginsWithSelect(q) ==
  \E i \in 0..Len(q) :
    /\ \A j \in 1..i : q[j] = " "
    /\ Len(q) >= i + 6
    /\ \A k \in 1..6 : Upper(q[i + k]) = SELECT[k]

C12_Invalid(q) == q \in {Undefined, NonString} \/ ~BeginsWithSelect(q)

\* C12: a read-query invocation whose query is absent, not a string or does
\* not begin with SELECT (trimmed, upper-cased) is rejected with a
\* ValidationError and executes no statement, on the session tool and on
\* the legacy REST endpoint alike
C12_InvalidQueryRejected ==
  \A t \in 1..MaxTasks :
    (tasks[t].op = "read_data" /\ C12_Invalid(tasks[t].args.query)) =>
      /\ tasks[t].stmt = NoStmt
      /\ tasks[t].pc = "done" => tasks[t].err = "validation"

\* C13: a validation or execution error raised in a Query Executor while an
\* 'invoke operation' message is handled becomes an error-flagged result
\* delivered over the stream of the message's session; the process keeps
\* running and the session, unless its transport closed, stays registered
\* and OPEN
C13_ExecutorErrorsStayInSession ==
  \A t \in 1..MaxTasks :
    (/\ tasks[t].kind = "call" /\ tasks[t].pc = "done"
     /\ tasks[t].err \in {"validation", "exec"}
     /\ removals[tasks[t].sess] = 0) =>
      /\ tasks[t].resp = "isError"
      /\ phase = "listening"
      /\ sessions[tasks[t].sess] = "open"
      /\ tasks[t].sess \in transports
      /\ Frame(t, tasks[t]) \in streams[tasks[t].sess]

C14_Unknown(tk) ==
  tk.kind = "call" /\ tk.op \notin {"read_data", "list_table", "describe_table"}

\* C14 as stated: an 'invoke operation' request naming an unknown operation
\* returns an error result naming the unknown operation and executes no
\* statement
C14_UnknownOperationNamed ==
  \A t \in 1..MaxTasks :
    C14_Unknown(tasks[t]) =>
      /\ tasks[t].stmt = NoStmt
      /\ tasks[t].pc = "done" =>
           tasks[t].resp = "isError" /\ tasks[t].err = "unknown_tool"

\* C14 amended: such a request executes no statement and returns an error
\* result; the result names the unknown operation when the connection
\* acquisition that precedes the dispatch succeeded or was not needed, and
\* is the acquisition error when the token request, close or open failed
C14_UnknownOperation ==
  \A t \in 1..MaxTasks :
    C14_Unknown(tasks[t]) =>
      /\ tasks[t].stmt = NoStmt
      /\ tasks[t].pc = "done" =>
           /\ tasks[t].resp = "isError"
           /\ tasks[t].err \in {"unknown_tool", "auth", "close", "connect"}
           /\ tasks[t].err = "unknown_tool" <=>
                (tasks[t].nTok = 0 \/ tasks[t].nOpen = 1)

\* an unknown operation answered after the handler refreshed the connection
C14_Witness ==
  \E t \in 1..MaxTasks :
    /\ C14_Unknown(tasks[t]) /\ tasks[t].pc = "done"
    /\ tasks[t].err = "unknown_tool"
    /\ tasks[t].nTok = 1 /\ tasks[t].nClose = 1 /\ tasks[t].nOpen = 1

\* C15: while the server is running, GET /health is answered with the
\* success body whatever the state of the shared connection, and the
\* request starts no token request, no connection open or close and no
\* query
C15_HealthAlwaysSucceeds ==
  [][(last' # last /\ last'.path = "/health") =>
       /\ last'.status = "200"
       /\ last'.task = -1
       /\ UNCHANGED <<connVars, tasks>>]_vars

\* C16: the server accepts requests only after the initial connection probe
\* succeeded; when the probe fails (token or connect error) the process
\* exits, never listens and never serves a request
C16_ListensOnlyAfterProbe ==
  /\ [](phase = "listening" =>
          /\ tasks[0].pc = "done" /\ tasks[0].err = "none"
          /\ tasks[0].nTok = 1 /\ tasks[0].nOpen = 1)
  /\ []((tasks[0].pc = "done" /\ tasks[0].err # "none") =>
          /\ phase = "exited"
          /\ last = NoExchange
          /\ \A t \in 1..MaxTasks : tasks[t] = FreeTask)
  /\ [][phase = "exited" => UNCHANGED vars]_vars
  /\ [][(last' # last \/ \E t \in 1..MaxTasks : Begun(t)) =>
          phase = "listening" /\ Len(pools) >= 1]_vars

\* the connect of the startup probe failed: the process is gone, nothing
\* was served
C16_Witness ==
  /\ phase = "exited"
  /\ tasks[0].err = "connect" /\ tasks[0].nTok = 1
  /\ pools = << >> /\ last = NoExchange

\* the three Operation Descriptors: name, argument name and type, required
C17_Descriptors ==
  { [name |-> "read_data",
     properties |-> {[name |-> "query", type |-> "string", items |-> "none"]},
     required |-> {"query"}],
    [name |-> "list_table",
     properties |-> {[name |-> "parameters", type |-> "array", items |-> "string"]},
     required |-> {}],
    [name |-> "describe_table",
     properties |-> {[name |-> "tableName", type |-> "string", items |-> "none"]},
     required |-> {"tableName"}] }

\* C17: in every reachable state 'list operations' returns exactly the
\* three descriptors read_data{query: string, required},
\* list_table{parameters: string[], optional} and
\* describe_table{tableName: string, required}, whatever was requested
\* before
C17_ExactlyThreeOperations ==
  \A t \in 1..MaxTasks :
    tasks[t].kind = "list" =>
      /\ tasks[t].pc = "done" /\ tasks[t].resp = "result"
      /\ Len(tasks[t].listed) = 3
      /\ {tasks[t].listed[i] : i \in 1..Len(tasks[t].listed)} = C17_Descriptors

\* the list was asked for on an open session and its result frame delivered
C17_Witness ==
  \E t \in 1..MaxTasks :
    /\ tasks[t].kind = "list" /\ Len(tasks[t].listed) = 3
    /\ sessions[tasks[t].sess] = "open"
    /\ Frame(t, tasks[t]) \in streams[tasks[t].sess]

C18_Answered(tk) ==
  tk.op = "read_data" /\ tk.pc = "done" /\ tk.resp \in {"200", "result"}

\* C18: a read_data query that the database answers with N rows yields an
\* envelope with success true, recordCount exactly N and data of length N
C18_RecordCountIsRowCount ==
  \A t \in 1..MaxTasks :
    C18_Answered(tasks[t]) =>
      /\ tasks[t].body.success
      /\ tasks[t].body.count = Len(tasks[t].recordset)
      /\ Len(tasks[t].body.rows) = Len(tasks[t].recordset)
      /\ tasks[t].body.rows = tasks[t].recordset

\* read_data answered with the largest recordset
C18_Witness ==
  \E t \in 1..MaxTasks :
    /\ C18_Answered(tasks[t]) /\ tasks[t].kind = "call"
    /\ Len(tasks[t].recordset) = MaxRows
    /\ tasks[t].body.count = MaxRows

C19_Answered(tk) ==
  tk.op = "list_table" /\ tk.pc = "done" /\ tk.resp \in {"200", "result"}

\* the schema of a returned entry: what precedes the first dot
RECURSIVE C19_SchemaOf(_)
C19_SchemaOf(row) ==
  IF row = << >> \/ Head(row) = "." THEN << >>
  ELSE <<Head(row)>> \o C19_SchemaOf(Tail(row))

C19_Names(a) == {a.parameters[i] : i \in 1..Len(a.parameters)}

C19_Rows(tk) == {tk.body.rows[i] : i \in 1..Len(tk.body.rows)}

C19_BaseTables ==
  { Catalog[i].schema \o <<".", Catalog[i].name>> :
      i \in {j \in 1..Len(Catalog) : Catalog[j].type = "BASE TABLE"} }

C19_Plain(name) == \A i \in 1..Len(name) : name[i] # "'"

\* C19 as stated: for every list of schema names passed to list_table the
\* returned tables are only entries whose schema is one of the names, and
\* without parameters all base tables are returned
C19_OnlySuppliedSchemas ==
  \A t \in 1..MaxTasks :
    C19_Answered(tasks[t]) =>
      IF HasFilter(tasks[t].args)
      THEN \A r \in C19_Rows(tasks[t]) : C19_SchemaOf(r) \in C19_Names(tasks[t].args)
      ELSE C19_Rows(tasks[t]) = C19_BaseTables

\* C19 amended: for every list of schema names none of which contains a
\* quote character the returned tables are exactly the base tables whose
\* schema is one of the names, and without parameters all base tables are
\* returned; a name is copied between quotes into the statement text as it
\* is, whatever it contains
C19_OnlySuppliedPlainSchemas ==
  \A t \in 1..MaxTasks :
    /\ (tasks[t].stmt.tpl = "list" /\ HasFilter(tasks[t].args)) =>
         \A i \in 1..Len(tasks[t].args.parameters) :
           \E k \in 1..(Len(tasks[t].stmt.text) - Len(tasks[t].args.parameters[i]) - 1) :
             SubSeq(tasks[t].stmt.text, k, k + Len(tasks[t].args.parameters[i]) + 1)
               = <<"'">> \o tasks[t].args.parameters[i] \o <<"'">>
    /\ C19_Answered(tasks[t]) =>
         IF ~HasFilter(tasks[t].args)
         THEN C19_Rows(tasks[t]) = C19_BaseTables
         ELSE (\A n \in C19_Names(tasks[t].args) : C19_Plain(n)) =>
                C19_Rows(tasks[t]) =
                  {r \in C19_BaseTables : C19_SchemaOf(r) \in C19_Names(tasks[t].args)}

\* list_table filtered by Sales and HR returned the one Sales table
C19_Witness ==
  \E t \in 1..MaxTasks :
    /\ C19_Answered(tasks[t])
    /\ tasks[t].args.parameters = << <<"Sales">>, <<"HR">> >>
    /\ tasks[t].body.rows = << <<"Sales", ".", "Orders">> >>

\* a text made of one SELECT statement: it begins with SELECT and holds no
\* statement separator
C20_SingleSelect(text) ==
  BeginsWithSelect(text) /\ \A i \in 1..Len(text) : text[i] # ";"

C22_Rank(st) ==
  CASE st = "none" -> 0 [] st = "establishing" -> 1 [] st = "open" -> 2
    [] st = "closed" -> 3

C23_RefreshReplacesTriple ==
  [][\A t \in 1..MaxTasks :
       /\ (Begun(t) /\ tasks'[t].kind = "rest" /\ ~C3_Fresh) =>
            tasks'[t].pc = "token" /\ tasks'[t].nTok = 1
       /\ tasks'[t].nOpen = tasks[t].nOpen + 1 =>
            /\ tasks'[t].nTok = 1 /\ tasks'[t].nClose <= 1 /\ tasks'[t].nOpen = 1
            /\ globalSqlPool' = Len(pools')
            /\ pools'[globalSqlPool'].state = "open"
            /\ pools'[globalSqlPool'].token = tasks[t].tok
            /\ globalAccessToken' = tasks[t].tok]_vars

\* C24: an acquisition replaces the stored handle, token and expiry together
\* or not at all; one that fails at the token request or at the connection
\* open has written no token or expiry and has closed no handle
C24_AllOrNothing ==
  /\ [](\A t \in 1..MaxTasks :
         (tasks[t].pc = "done" /\ tasks[t].err \in {"auth", "connect"}) =>
           tasks[t].tok = NoToken /\ tasks[t].nClose = 0)
  /\ [][phase = "listening" =>
         /\ (globalAccessToken' # globalAccessToken) = (globalSqlPool' # globalSqlPool)
         /\ (globalTokenExpiresOn' # globalTokenExpiresOn) =>
              (globalAccessToken' # globalAccessToken)]_vars

\* C25: a refresh that closes an old handle has finished closing it when it
\* opens the new one, and whatever the outcome of the close the acquisition
\* goes on to open the new handle: no acquisition ends with the close error
C25_CloseErrorsSwallowed ==
  [][\A t \in TaskIds :
       /\ (tasks[t].pc = "close" /\ tasks'[t].pc # "close") =>
            tasks'[t].pc = "connect" /\ tasks'[t].err = "none"
       /\ (tasks'[t].nOpen = tasks[t].nOpen + 1 /\ tasks[t].closing # NoPool) =>
            pools[tasks[t].closing].state = "closed"]_vars

\* C26: a registered session whose transport has closed, or whose stream
\* establishment has failed, is eventually removed from the registry
C26_ClosedSessionsLeaveRegistry ==
  \A s \in SessionIds :
    (s \in transports /\ sessions[s] \in {"failed", "closed"}) ~> (s \notin transports)

\* the identifier the claim assigns to a POST /sse exchange
C27_Id(e) ==
  IF e.hSession # Undefined /\ e.hSession # << >> THEN e.hSession ELSE e.qSession

\* C27: a POST /sse message is routed by the x-mcp-session-id header when
\* the header is present and non-empty and by the sessionId query parameter
\* only otherwise: an accepted message is handled by the session so named
\* (the header's when both are given and differ), and the request is refused
\* exactly when that identifier is missing (400) or not registered (404)
C27_HeaderBeforeQuery ==
  [][(Exchanged /\ last'.method = "POST" /\ last'.path = "/sse") =>
       /\ last'.status = "400" <=> Falsy(C27_Id(last'))
       /\ last'.status = "404" <=> (~Falsy(C27_Id(last')) /\ Lookup(C27_Id(last')) = {})
       /\ last'.status = "202" =>
            /\ SidOf(tasks'[last'.task].sess) = C27_Id(last')
            /\ tasks'[last'.task].sess \in transports]_vars

\* a message carrying session 1 in the header and session 2 in the query,
\* both sessions open, was handed to session 1
C27_Witness ==
  /\ last.status = "202"
  /\ last.hSession = SidOf(1) /\ last.qSession = SidOf(2)
  /\ sessions[1] = "open" /\ sessions[2] = "open" /\ {1, 2} \subseteq transports
  /\ tasks[last.task].sess = 1

\* the credential of the highest-precedence channel that carries one
C28_Chosen(c) ==
  IF c.x # Undefined THEN c.x
  ELSE IF c.auth # Undefined THEN C8_Bearer(c.auth)
  ELSE c.q

C29_LimitedWithoutCredential ==
  (env.rateLimit /\ last.reached /\ last.path \notin {"none", "/health"}) =>
    /\ RateKey(last.cred) \in DOMAIN requestCounts
    /\ Falsy(env.apiKey) => Anonymous \in DOMAIN requestCounts

\* the rate-limit key the claim assigns: the presented credential,
\* whichever channel carries it, and the anonymous key when there is none
C30_Key(c) ==
  IF C28_Chosen(c) = Undefined THEN Anonymous ELSE C28_Chosen(c)

\* C30: a request other than /health that the rate limiter passes on is
\* counted under the credential it presents, whichever channel carries it,
\* and under no other key, so that all requests presenting one credential
\* share one counter
C30_OneCounterPerCredential ==
  [][(Exchanged /\ last'.reached /\ last'.path # "/health") =>
       LET k == C30_Key(last'.cred) IN
         /\ k \in DOMAIN requestCounts'
         /\ \A j \in DOMAIN requestCounts' \ {k} :
              j \in DOMAIN requestCounts /\ requestCounts'[j] = requestCounts[j]]_vars

\* C31: the credential check runs before the rate-limit accounting: a
\* request answered 401 or 403 leaves every counter as it was, and a request
\* answered 429 had passed the credential check (it presented API_KEY, or
\* it was a /health request, which the check lets through)
C31_CheckBeforeAccounting ==
  /\ [](last.status = "429" =>
         last.path = "/health" \/ C28_Chosen(last.cred) = env.apiKey)
  /\ [][(Exchanged /\ last'.status \in {"401", "403"}) =>
         requestCounts' = requestCounts]_vars

\* with the limiter installed and a counter running, a wrong key was
\* refused and left no counter of its own
C31_Witness ==
  /\ LimiterInstalled
  /\ last.status = "403" /\ last.cred.x = BadKey
  /\ GoodKey \in DOMAIN requestCounts
  /\ BadKey \notin DOMAIN requestCounts

\* an argument object outside the input-shape contract of its operation
C32_BadShape(tk) ==
  \/ /\ tk.op = "list_table"
     /\ tk.args.parameters # NoNames
     /\ \/ tk.args.parameters \in {NumberNames, StringNames}
        \/ \E i \in 1..Len(tk.args.parameters) : ~IsString(tk.args.parameters[i])
  \/ /\ tk.op = "describe_table"
     /\ ~IsString(tk.args.tableName)

\* C32: a list_table or describe_table invocation whose arguments violate
\* the input-shape contract issues no statement and, once the connection
\* has been acquired, ends with the validation error
C32_BadShapesRejected ==
  \A t \in 1..MaxTasks :
    (tasks[t].pc # "free" /\ C32_BadShape(tasks[t])) =>
      /\ tasks[t].stmt = NoStmt
      /\ tasks[t].pc = "done" =>
           \/ tasks[t].err \in {"auth", "close", "connect"}
           \/ tasks[t].err = "validation" /\ tasks[t].resp = BadCode(tasks[t])

\* C33: an invocation whose arguments fail validation never reaches the
\* database or the Token Provider: it requests no token, opens and closes
\* no connection, issues no statement and ends at once with the validation
\* error, whatever the state of the shared connection
C33_InvalidNeverReachesDatabase ==
  \A t \in 1..MaxTasks :
    (tasks[t].op = "read_data" /\ C12_Invalid(tasks[t].args.query)) =>
      /\ tasks[t].nTok = 0 /\ tasks[t].nOpen = 0 /\ tasks[t].nClose = 0
      /\ tasks[t].stmt = NoStmt
      /\ tasks[t].pc = "done" /\ tasks[t].err = "validation"

\* C34: an invocation whose connection acquisition fails at the token
\* request or at the open ends with an error-flagged result after exactly
\* one acquisition attempt and without a statement; nothing is retried, and
\* an invocation submitted afterwards, unless it finds a fresh connection
\* stored, starts an acquisition of its own
C34_FailedAcquisition ==
  /\ [](\A t \in 1..MaxTasks :
         /\ tasks[t].nTok <= 1
         /\ (tasks[t].pc = "done" /\ tasks[t].err \in {"auth", "connect"}) =>
              /\ tasks[t].resp = (IF tasks[t].kind = "rest" THEN "500" ELSE "isError")
              /\ tasks[t].nTok = 1 /\ tasks[t].nOpen = 0
              /\ tasks[t].stmt = NoStmt /\ tasks[t].ranOn = NoPool)
  /\ [][\A t \in 1..MaxTasks :
         /\ tasks[t].pc = "done" => tasks'[t] = tasks[t]
         /\ (Begun(t) /\ ~C3_Fresh) =>
              tasks'[t].pc = "token" /\ tasks'[t].nTok = 1 /\ tasks'[t].err = "none"]_vars

\* an invocation failed at the open; one submitted afterwards acquired a
\* connection of its own with a later token
C34_Witness ==
  \E t, u \in 1..MaxTasks :
    /\ tasks[t].pc = "done" /\ tasks[t].err = "connect"
    /\ tasks[u].nTok = 1 /\ tasks[u].nOpen = 1
    /\ tasks[u].tok > tasks[t].tok

\* C35: in every state, suspended acquisitions included, the stored token
\* is the token with which the stored handle was opened
C35_TokenOfStoredHandle ==
  globalSqlPool # NoPool => pools[globalSqlPool].token = globalAccessToken

\* C36: the handle an acquisition hands to its caller is open when the call
\* returns, and the statement the caller issues on it does not run on a
\* handle that another acquisition is closing or has closed
C36_StatementsRunOnOpenHandles ==
  \A t \in 1..MaxTasks :
    tasks[t].pc = "query" =>
      tasks[t].ranOn # NoPool /\ pools[tasks[t].ranOn].state = "open"

\* the counter the limiter keeps for key k, if any
C37_Counter(counts, k) == IF k \in DOMAIN counts THEN {counts[k]} ELSE {}

\* C37: a request that does not present the valid credential (a /health
\* request without credential included) leaves unchanged the counter the
\* limiter uses for any request that presents the valid credential
C37_OthersLeaveValidCounterAlone ==
  [][(Exchanged /\ C28_Chosen(last'.cred) # env.apiKey) =>
       \A c \in AllCreds :
         C28_Chosen(c) = env.apiKey =>
           C37_Counter(requestCounts', RateKey(c)) = C37_Counter(requestCounts, RateKey(c))]_vars

\* C38: after a request was answered 429 with retryAfter = r, a request
\* with the same rate-limit key that arrives r seconds later or more is not
\* answered 429
C38_RetryAfterIsEnough ==
  [][(/\ last.status = "429" /\ last' # last
      /\ RateKey(last'.cred) = RateKey(last.cred)
      /\ now >= last.retryAt) =>
       last'.status # "429"]_vars

\* the same invocation submitted to the other program
C39_Twin(tk) == [tk EXCEPT !.kind = IF tk.kind = "rest" THEN "call" ELSE "rest"]

\* C39: the legacy REST endpoint and the session operation of the same name
\* treat the same arguments alike: when the connection is at hand both
\* accept or both reject them and both issue the same statement, and for
\* the same recordset both return the same rows with a count and a
\* completion timestamp
C39_TransportsAgree ==
  /\ [](\A t \in 1..MaxTasks :
         (tasks[t].pc = "done" /\ tasks[t].body.success) =>
           LET twin == Succeed(C39_Twin(tasks[t])).body IN
             /\ twin.rows = tasks[t].body.rows
             /\ twin.count = tasks[t].body.count
             /\ tasks[t].body.count = Len(tasks[t].body.rows)
             /\ twin.executedAt >= 0 /\ tasks[t].body.executedAt >= 0)
  /\ [][\A t \in 1..MaxTasks :
         (/\ tasks[t].pc \notin {"query", "done"}
          /\ tasks'[t].pc \in {"query", "done"}
          /\ tasks'[t].kind \in {"rest", "call"}
          /\ tasks'[t].err \notin {"auth", "close", "connect"}) =>
           LET twin == AfterEnsure(C39_Twin(tasks'[t])) IN
             /\ twin.pc = tasks'[t].pc
             /\ twin.stmt = tasks'[t].stmt
             /\ twin.err = tasks'[t].err]_vars

\* C40: a message accepted on an open session is eventually answered by a
\* response frame on that session's stream, unless the session stops being
\* open
C40_AcceptedMessagesAnswered ==
  \A t \in 1..MaxTasks : \A s \in SessionIds :
    (tasks[t].kind \in {"call", "list"} /\ tasks[t].sess = s)
      ~> (sessions[s] # "open" \/ \E f \in streams[s] : f.msg = t)
====
